---------------------------- MODULE Spec2Model ----------------------------
(***************************************************************************)
(* RegisterPlugins of windows/flutter/generated_plugin_registrant.cc.      *)
(*                                                                         *)
(* The function is a flat list of ten statements, each of the form         *)
(*     <Entry>RegisterWithRegistrar(registry->GetRegistrarForPlugin(name)) *)
(* The registry and the ten entry points are external: every call of one   *)
(* of them is a step whose outcome (it returns, it throws, it never        *)
(* returns) is chosen by the environment.  The log records every external  *)
(* call in the order it is made.                                           *)
(***************************************************************************)
EXTENDS Integers, Sequences, FiniteSets, TLC

VARIABLES registry, run, pc, ip, tmp, result, log

vars == <<registry, run, pc, ip, tmp, result, log>>

(***************************************************************************)
(* Bounds of the model.                                                    *)
(***************************************************************************)
\* How many times the host calls RegisterPlugins, one call after the other.
MaxRuns == 2

(***************************************************************************)
(* The text of the function.                                               *)
(***************************************************************************)
\* A variant of the body with statements 3 and 4 in the other order.
RegisterPluginsBody_reordered ==
  << [entry |-> "DartotsuExtensionBridgePluginCApiRegisterWithRegistrar",
      name  |-> "DartotsuExtensionBridgePluginCApi"],
     [entry |-> "DesktopWebviewWindowPluginRegisterWithRegistrar",
      name  |-> "DesktopWebviewWindowPlugin"],
     [entry |-> "FlutterQjsPluginRegisterWithRegistrar",
      name  |-> "FlutterQjsPlugin"],
     [entry |-> "FlutterInappwebviewWindowsPluginCApiRegisterWithRegistrar",
      name  |-> "FlutterInappwebviewWindowsPluginCApi"],
     [entry |-> "FlutterSecureStorageWindowsPluginRegisterWithRegistrar",
      name  |-> "FlutterSecureStorageWindowsPlugin"],
     [entry |-> "IsarFlutterLibsPluginRegisterWithRegistrar",
      name  |-> "IsarFlutterLibsPlugin"],
     [entry |-> "MediaKitLibsWindowsVideoPluginCApiRegisterWithRegistrar",
      name  |-> "MediaKitLibsWindowsVideoPluginCApi"],
     [entry |-> "MediaKitVideoPluginCApiRegisterWithRegistrar",
      name  |-> "MediaKitVideoPluginCApi"],
     [entry |-> "UrlLauncherWindowsRegisterWithRegistrar",
      name  |-> "UrlLauncherWindows"],
     [entry |-> "WindowToFrontPluginRegisterWithRegistrar",
      name  |-> "WindowToFrontPlugin"] >>

\* A variant of the body where statement 8 looks up the name of statement 7.
RegisterPluginsBody_wrongName ==
  << [entry |-> "DartotsuExtensionBridgePluginCApiRegisterWithRegistrar",
      name  |-> "DartotsuExtensionBridgePluginCApi"],
     [entry |-> "DesktopWebviewWindowPluginRegisterWithRegistrar",
      name  |-> "DesktopWebviewWindowPlugin"],
     [entry |-> "FlutterInappwebviewWindowsPluginCApiRegisterWithRegistrar",
      name  |-> "FlutterInappwebviewWindowsPluginCApi"],
     [entry |-> "FlutterQjsPluginRegisterWithRegistrar",
      name  |-> "FlutterQjsPlugin"],
     [entry |-> "FlutterSecureStorageWindowsPluginRegisterWithRegistrar",
      name  |-> "FlutterSecureStorageWindowsPlugin"],
     [entry |-> "IsarFlutterLibsPluginRegisterWithRegistrar",
      name  |-> "IsarFlutterLibsPlugin"],
     [entry |-> "MediaKitLibsWindowsVideoPluginCApiRegisterWithRegistrar",
      name  |-> "MediaKitLibsWindowsVideoPluginCApi"],
     [entry |-> "MediaKitVideoPluginCApiRegisterWithRegistrar",
      name  |-> "MediaKitLibsWindowsVideoPluginCApi"],
     [entry |-> "UrlLauncherWindowsRegisterWithRegistrar",
      name  |-> "UrlLauncherWindows"],
     [entry |-> "WindowToFrontPluginRegisterWithRegistrar",
      name  |-> "WindowToFrontPlugin"] >>

\* A variant of the body where statement 6 uses the package's name
\* (isar_community_flutter_libs) for the lookup.
RegisterPluginsBody_packageName ==
  << [entry |-> "DartotsuExtensionBridgePluginCApiRegisterWithRegistrar",
      name  |-> "DartotsuExtensionBridgePluginCApi"],
     [entry |-> "DesktopWebviewWindowPluginRegisterWithRegistrar",
      name  |-> "DesktopWebviewWindowPlugin"],
     [entry |-> "FlutterInappwebviewWindowsPluginCApiRegisterWithRegistrar",
      name  |-> "FlutterInappwebviewWindowsPluginCApi"],
     [entry |-> "FlutterQjsPluginRegisterWithRegistrar",
      name  |-> "FlutterQjsPlugin"],
     [entry |-> "FlutterSecureStorageWindowsPluginRegisterWithRegistrar",
      name  |-> "FlutterSecureStorageWindowsPlugin"],
     [entry |-> "IsarFlutterLibsPluginRegisterWithRegistrar",
      name  |-> "IsarCommunityFlutterLibsPlugin"],
     [entry |-> "MediaKitLibsWindowsVideoPluginCApiRegisterWithRegistrar",
      name  |-> "MediaKitLibsWindowsVideoPluginCApi"],
     [entry |-> "MediaKitVideoPluginCApiRegisterWithRegistrar",
      name  |-> "MediaKitVideoPluginCApi"],
     [entry |-> "UrlLauncherWindowsRegisterWithRegistrar",
      name  |-> "UrlLauncherWindows"],
     [entry |-> "WindowToFrontPluginRegisterWithRegistrar",
      name  |-> "WindowToFrontPlugin"] >>

\* A variant of the body where statement 2 was pasted twice and the last
\* statement is missing.
RegisterPluginsBody_duplicated ==
  << [entry |-> "DartotsuExtensionBridgePluginCApiRegisterWithRegistrar",
      name  |-> "DartotsuExtensionBridgePluginCApi"],
     [entry |-> "DesktopWebviewWindowPluginRegisterWithRegistrar",
      name  |-> "DesktopWebviewWindowPlugin"],
     [entry |-> "DesktopWebviewWindowPluginRegisterWithRegistrar",
      name  |-> "DesktopWebviewWindowPlugin"],
     [entry |-> "FlutterInappwebviewWindowsPluginCApiRegisterWithRegistrar",
      name  |-> "FlutterInappwebviewWindowsPluginCApi"],
     [entry |-> "FlutterQjsPluginRegisterWithRegistrar",
      name  |-> "FlutterQjsPlugin"],
     [entry |-> "FlutterSecureStorageWindowsPluginRegisterWithRegistrar",
      name  |-> "FlutterSecureStorageWindowsPlugin"],
     [entry |-> "IsarFlutterLibsPluginRegisterWithRegistrar",
      name  |-> "IsarFlutterLibsPlugin"],
     [entry |-> "MediaKitLibsWindowsVideoPluginCApiRegisterWithRegistrar",
      name  |-> "MediaKitLibsWindowsVideoPluginCApi"],
     [entry |-> "MediaKitVideoPluginCApiRegisterWithRegistrar",
      name  |-> "MediaKitVideoPluginCApi"],
     [entry |-> "UrlLauncherWindowsRegisterWithRegistrar",
      name  |-> "UrlLauncherWindows"] >>

\* The ten statements of RegisterPlugins in textual order: the entry point
\* called and the string literal handed to GetRegistrarForPlugin.
RegisterPluginsBody ==
  << [entry |-> "DartotsuExtensionBridgePluginCApiRegisterWithRegistrar",
      name  |-> "DartotsuExtensionBridgePluginCApi"],
     [entry |-> "DesktopWebviewWindowPluginRegisterWithRegistrar",
      name  |-> "DesktopWebviewWindowPlugin"],
     [entry |-> "FlutterInappwebviewWindowsPluginCApiRegisterWithRegistrar",
      name  |-> "FlutterInappwebviewWindowsPluginCApi"],
     [entry |-> "FlutterQjsPluginRegisterWithRegistrar",
      name  |-> "FlutterQjsPlugin"],
     [entry |-> "FlutterSecureStorageWindowsPluginRegisterWithRegistrar",
      name  |-> "FlutterSecureStorageWindowsPlugin"],
     [entry |-> "IsarFlutterLibsPluginRegisterWithRegistrar",
      name  |-> "IsarFlutterLibsPlugin"],
     [entry |-> "MediaKitLibsWindowsVideoPluginCApiRegisterWithRegistrar",
      name  |-> "MediaKitLibsWindowsVideoPluginCApi"],
     [entry |-> "MediaKitVideoPluginCApiRegisterWithRegistrar",
      name  |-> "MediaKitVideoPluginCApi"],
     [entry |-> "UrlLauncherWindowsRegisterWithRegistrar",
      name  |-> "UrlLauncherWindows"],
     [entry |-> "WindowToFrontPluginRegisterWithRegistrar",
      name  |-> "WindowToFrontPlugin"] >>

\* Statement s as the two external calls it makes.  C++ evaluates the
\* argument of a call before the call: the lookup comes first.
StatementCalls(s) ==
  << [op |-> "lookup",   callee |-> "GetRegistrarForPlugin", name |-> s.name],
     [op |-> "register", callee |-> s.entry,                 name |-> s.name] >>

RECURSIVE Flatten(_)
Flatten(body) ==
  IF body = << >> THEN << >>
  ELSE StatementCalls(Head(body)) \o Flatten(Tail(body))

\* A variant of the code that obtains every registrar first and only then
\* calls the entry points.
Program_hoisted ==
  [i \in 1..Len(RegisterPluginsBody) |->
      StatementCalls(RegisterPluginsBody[i])[1]] \o
  [i \in 1..Len(RegisterPluginsBody) |->
      StatementCalls(RegisterPluginsBody[i])[2]]

\* The external calls of RegisterPlugins in the order the function makes
\* them: statement after statement.
Program == Flatten(RegisterPluginsBody)

\* A variant that moves on by a whole statement after a lookup.
NextInstruction_skip(i) == i + 2

\* Straight-line code: after call i comes call i + 1.
NextInstruction(i) == i + 1

\* A variant that replaces a null registrar by a placeholder.
ForwardedArgument_validated(t) == IF t = "nullptr" THEN "placeholder" ELSE t

\* The argument handed to the entry point is the value of the lookup
\* expression, as it is.
ForwardedArgument(t) == t

\* A variant that wraps whatever was thrown.
Propagate_wrapped(e) == "std::runtime_error"

\* The function has no try block: what an external call throws leaves the
\* function as it is.
Propagate(e) == e

(***************************************************************************)
(* The environment: the registry and what external calls may throw.        *)
(***************************************************************************)
NULL == "nullptr"
NoRegistrar == "none"
Void == "void"

\* Exceptions a lookup may raise (the std::string temporary built from the
\* literal allocates) and exceptions an entry point may raise.
LookupErrors == {"std::bad_alloc"}
EntryErrors  == {"plugin_error"}

\* Plugins the "missing" registry does not know.
MissingPlugins == {"FlutterQjsPlugin", "UrlLauncherWindows"}

\* The registries the host may hand in: one registrar per identifier, one
\* registrar shared by all identifiers, no registrar at all (a registry
\* without an engine), no registrar for some identifiers.
Registries == {"distinct", "shared", "null", "missing"}

Marker(name) == "registrar:" \o name

\* registry->GetRegistrarForPlugin(name) when it returns.
GetRegistrarForPlugin(reg, name) ==
  CASE reg = "distinct" -> Marker(name)
    [] reg = "shared"   -> "registrar:engine"
    [] reg = "null"     -> NULL
    [] reg = "missing"  -> IF name \in MissingPlugins THEN NULL ELSE Marker(name)

(***************************************************************************)
(* State.                                                                  *)
(***************************************************************************)
NoResult == [kind |-> "none", err |-> ""]

Event(op, callee, arg, out, val) ==
  [run |-> run, op |-> op, callee |-> callee, arg |-> arg, out |-> out, val |-> val]

Init ==
  /\ registry \in Registries
  /\ run = 0
  /\ pc = "idle"
  /\ ip = 0
  /\ tmp = NoRegistrar
  /\ result = NoResult
  /\ log = << >>

\* After the last call the function returns to its caller.
Advance(i) ==
  IF NextInstruction(i) > Len(Program)
  THEN /\ pc' = "returned"
       /\ ip' = 0
       /\ result' = [kind |-> "returned", err |-> ""]
  ELSE /\ pc' = "running"
       /\ ip' = NextInstruction(i)
       /\ result' = result

\* A variant with a function-local static flag: only the first call of the
\* function does the work.
Call_once ==
  /\ pc \in {"idle", "returned", "threw"}
  /\ run < MaxRuns
  /\ run' = run + 1
  /\ tmp' = NoRegistrar
  /\ IF run = 0
     THEN pc' = "running" /\ ip' = 1 /\ result' = NoResult
     ELSE pc' = "returned" /\ ip' = 0 /\ result' = [kind |-> "returned", err |-> ""]
  /\ UNCHANGED <<registry, log>>

\* The host calls RegisterPlugins(registry): control enters at the first
\* statement, whatever earlier calls did.
Call ==
  /\ pc \in {"idle", "returned", "threw"}
  /\ run < MaxRuns
  /\ run' = run + 1
  /\ pc' = "running"
  /\ ip' = 1
  /\ tmp' = NoRegistrar
  /\ result' = NoResult
  /\ UNCHANGED <<registry, log>>

\* registry->GetRegistrarForPlugin("...") returns a registrar.
LookupReturns ==
  /\ pc = "running"
  /\ Program[ip].op = "lookup"
  /\ LET r == GetRegistrarForPlugin(registry, Program[ip].name)
     IN  /\ tmp' = r
         /\ log' = Append(log, Event("lookup", Program[ip].callee, Program[ip].name, "ret", r))
  /\ Advance(ip)
  /\ UNCHANGED <<registry, run>>

\* registry->GetRegistrarForPlugin("...") throws.
LookupThrows ==
  /\ pc = "running"
  /\ Program[ip].op = "lookup"
  /\ \E e \in LookupErrors :
        /\ log' = Append(log, Event("lookup", Program[ip].callee, Program[ip].name, "throw", e))
        /\ result' = [kind |-> "exception", err |-> Propagate(e)]
  /\ pc' = "threw"
  /\ ip' = 0
  /\ tmp' = NoRegistrar
  /\ UNCHANGED <<registry, run>>

\* registry->GetRegistrarForPlugin("...") never returns.
LookupHangs ==
  /\ pc = "running"
  /\ Program[ip].op = "lookup"
  /\ log' = Append(log, Event("lookup", Program[ip].callee, Program[ip].name, "hang", Void))
  /\ pc' = "hung"
  /\ UNCHANGED <<registry, run, ip, tmp, result>>

\* <Entry>RegisterWithRegistrar(registrar) returns.
RegisterReturns ==
  /\ pc = "running"
  /\ Program[ip].op = "register"
  /\ log' = Append(log, Event("register", Program[ip].callee, ForwardedArgument(tmp), "ret", Void))
  /\ tmp' = NoRegistrar
  /\ Advance(ip)
  /\ UNCHANGED <<registry, run>>

\* A variant with a catch block around the entry point that goes on with
\* the next statement.
RegisterThrows_swallowed ==
  /\ pc = "running"
  /\ Program[ip].op = "register"
  /\ \E e \in EntryErrors :
        log' = Append(log, Event("register", Program[ip].callee, ForwardedArgument(tmp), "throw", e))
  /\ tmp' = NoRegistrar
  /\ Advance(ip)
  /\ UNCHANGED <<registry, run>>

\* <Entry>RegisterWithRegistrar(registrar) throws.
RegisterThrows ==
  /\ pc = "running"
  /\ Program[ip].op = "register"
  /\ \E e \in EntryErrors :
        /\ log' = Append(log, Event("register", Program[ip].callee, ForwardedArgument(tmp), "throw", e))
        /\ result' = [kind |-> "exception", err |-> Propagate(e)]
  /\ pc' = "threw"
  /\ ip' = 0
  /\ tmp' = NoRegistrar
  /\ UNCHANGED <<registry, run>>

\* <Entry>RegisterWithRegistrar(registrar) never returns.
RegisterHangs ==
  /\ pc = "running"
  /\ Program[ip].op = "register"
  /\ log' = Append(log, Event("register", Program[ip].callee, ForwardedArgument(tmp), "hang", Void))
  /\ pc' = "hung"
  /\ tmp' = NoRegistrar
  /\ UNCHANGED <<registry, run, ip, result>>

\* One step of the function's own thread.
Step ==
  \/ LookupReturns
  \/ LookupThrows
  \/ LookupHangs
  \/ RegisterReturns
  \/ RegisterThrows
  \/ RegisterHangs

Next ==
  \/ Call
  \/ LookupReturns
  \/ LookupThrows
  \/ LookupHangs
  \/ RegisterReturns
  \/ RegisterThrows
  \/ RegisterHangs

Spec == Init /\ [][Next]_vars

\* The function runs on one thread with no suspension point: while it is
\* running it takes its next step.
FairSpec == Init /\ [][Next]_vars /\ WF_vars(Step)


(***************************************************************************)
(* Reading the log.                                                        *)
(***************************************************************************)
Suffix == "RegisterWithRegistrar"

\* The declared order of the plugins.
DeclaredOrder ==
  << "DartotsuExtensionBridgePluginCApi",
     "DesktopWebviewWindowPlugin",
     "FlutterInappwebviewWindowsPluginCApi",
     "FlutterQjsPlugin",
     "FlutterSecureStorageWindowsPlugin",
     "IsarFlutterLibsPlugin",
     "MediaKitLibsWindowsVideoPluginCApi",
     "MediaKitVideoPluginCApi",
     "UrlLauncherWindows",
     "WindowToFrontPlugin" >>

NumPlugins == Len(DeclaredOrder)

EntryPointOf(name) == name \o Suffix

\* The log a run makes when every call returns, without the registrars.
ExpectedCalls ==
  [k \in 1..(NumPlugins + NumPlugins) |->
     IF k % 2 = 1
     THEN <<"lookup", "GetRegistrarForPlugin", DeclaredOrder[(k + 1) \div 2]>>
     ELSE <<"register", EntryPointOf(DeclaredOrder[k \div 2])>>]

RunEvents(r) == SelectSeq(log, LAMBDA e : e.run = r)

Lookups(evs) == SelectSeq(evs, LAMBDA e : e.op = "lookup")

Registrations(evs) == SelectSeq(evs, LAMBDA e : e.op = "register")

\* A call as the callee saw it, without the registrar.
CallOf(e) ==
  IF e.op = "lookup" THEN <<e.op, e.callee, e.arg>> ELSE <<e.op, e.callee>>

CallSeq(evs) == [k \in 1..Len(evs) |-> CallOf(evs[k])]

IsPrefix(s, t) == Len(s) <= Len(t) /\ \A k \in 1..Len(s) : s[k] = t[k]

AllReturned(evs) == \A k \in 1..Len(evs) : evs[k].out = "ret"

\* Run r has returned to its caller.
Returned(r) ==
  IF r = run THEN pc = "returned"
  ELSE LET evs == RunEvents(r) IN evs = << >> \/ evs[Len(evs)].out = "ret"

\* The plugin an event is about: the identifier looked up, or the entry
\* point's name without its suffix.
PluginOf(e) ==
  IF e.op = "lookup" THEN e.arg
  ELSE SubSeq(e.callee, 1, Len(e.callee) - Len(Suffix))

\* The place of a plugin in the declared order (0: not a declared plugin).
IndexOf(name) ==
  IF \E i \in 1..NumPlugins : DeclaredOrder[i] = name
  THEN CHOOSE i \in 1..NumPlugins : DeclaredOrder[i] = name
  ELSE 0

(***************************************************************************)
(* C1                                                                      *)
(***************************************************************************)
\* C1: in every run the entry points are called in the declared order: the
\* entry points called so far are the first ones of the declared order, one
\* after the other, and a run that has returned has called all ten.
C1_RegistrationOrder ==
  \A r \in 1..run :
    LET regs == Registrations(RunEvents(r))
    IN  /\ Len(regs) <= NumPlugins
        /\ \A i \in 1..Len(regs) : regs[i].callee = EntryPointOf(DeclaredOrder[i])
        /\ Returned(r) => Len(regs) = NumPlugins

C1_Witness ==
  /\ run = 1
  /\ pc = "returned"
  /\ Len(Registrations(log)) = NumPlugins

(***************************************************************************)
(* C2                                                                      *)
(***************************************************************************)
\* C2: in a run where every external call returned, each of the ten entry
\* points was called exactly once, with the registrar the lookup of its own
\* identifier returned; with a registry that has a distinct registrar per
\* identifier the registrations are exactly the ten (identifier, marker)
\* pairs of the declared order.
C2_OwnRegistrar ==
  \A r \in 1..run :
    LET evs  == RunEvents(r)
        regs == Registrations(evs)
        lks  == Lookups(evs)
    IN  (Returned(r) /\ AllReturned(evs)) =>
          /\ \A i \in 1..NumPlugins :
               /\ Cardinality({k \in 1..Len(regs) :
                     regs[k].callee = EntryPointOf(DeclaredOrder[i])}) = 1
               /\ \A k \in 1..Len(regs) :
                     regs[k].callee = EntryPointOf(DeclaredOrder[i]) =>
                       /\ \E j \in 1..Len(lks) : lks[j].arg = DeclaredOrder[i]
                       /\ \A j \in 1..Len(lks) :
                             lks[j].arg = DeclaredOrder[i] => regs[k].arg = lks[j].val
          /\ registry = "distinct" =>
               [k \in 1..Len(regs) |-> <<PluginOf(regs[k]), regs[k].arg>>]
                 = [i \in 1..NumPlugins |-> <<DeclaredOrder[i], Marker(DeclaredOrder[i])>>]

C2_Witness ==
  /\ registry = "distinct"
  /\ run = 1
  /\ pc = "returned"
  /\ AllReturned(log)
  /\ Len(Registrations(log)) = NumPlugins
  /\ log[Len(log)].arg = Marker("WindowToFrontPlugin")

(***************************************************************************)
(* C3                                                                      *)
(***************************************************************************)
\* C3 as stated: the registrar passed to an entry point is never null.
C3_NonNullRegistrar ==
  \A k \in 1..Len(log) : log[k].op = "register" => log[k].arg # NULL

\* C3 as amended: the registrar passed to an entry point is the value the
\* lookup just before it returned, unchecked: it is null exactly when the
\* registry returns null for that plugin's identifier.
C3_RegistrarUnchecked ==
  \A k \in 1..Len(log) :
    log[k].op = "register" =>
      /\ k > 1
      /\ log[k - 1].op = "lookup"
      /\ log[k - 1].out = "ret"
      /\ log[k].arg = log[k - 1].val
      /\ (log[k].arg = NULL) <=>
           (GetRegistrarForPlugin(registry, PluginOf(log[k])) = NULL)

C3_Witness ==
  /\ registry = "missing"
  /\ \E k \in 1..Len(log) :
        log[k].op = "register" /\ log[k].arg = NULL /\ log[k].out = "ret"
  /\ \E k \in 1..Len(log) :
        log[k].op = "register" /\ log[k].arg # NULL /\ log[k].out = "ret"

(***************************************************************************)
(* C4                                                                      *)
(***************************************************************************)
\* C4: at every point of a run each identifier has been looked up at most
\* once in it, and after a run that returned the identifiers looked up in
\* it are exactly the ten declared names.
C4_LookupSet ==
  \A r \in 1..run :
    LET lks == Lookups(RunEvents(r))
    IN  /\ \A j, k \in 1..Len(lks) : lks[j].arg = lks[k].arg => j = k
        /\ Returned(r) =>
             {lks[k].arg : k \in 1..Len(lks)}
               = {DeclaredOrder[i] : i \in 1..NumPlugins}

C4_Witness ==
  /\ run = 1
  /\ pc = "returned"
  /\ Cardinality({e.arg : e \in {log[k] : k \in {j \in 1..Len(log) : log[j].op = "lookup"}}})
       = NumPlugins

(***************************************************************************)
(* C5                                                                      *)
(***************************************************************************)
\* C5: a later call of RegisterPlugins starts from the first statement
\* whatever the earlier calls did: the calls of every run are the calls of
\* the single-run log, from its start, all of them once the run has
\* returned; two runs that returned leave the single-run log twice.
C5_TwoPasses ==
  /\ \A r \in 1..run :
       /\ IsPrefix(CallSeq(RunEvents(r)), ExpectedCalls)
       /\ Returned(r) => CallSeq(RunEvents(r)) = ExpectedCalls
  /\ (run >= 2 /\ Returned(1) /\ Returned(2)) =>
       CallSeq(RunEvents(1) \o RunEvents(2)) = ExpectedCalls \o ExpectedCalls

C5_Witness ==
  /\ run = 2
  /\ pc = "returned"
  /\ Returned(1)
  /\ Len(log) = Len(ExpectedCalls) + Len(ExpectedCalls)

(***************************************************************************)
(* C6                                                                      *)
(***************************************************************************)
KnownCallees ==
  {"GetRegistrarForPlugin"} \cup {EntryPointOf(DeclaredOrder[i]) : i \in 1..NumPlugins}

\* C6: what an external call throws reaches the caller as it was thrown;
\* in a run no identifier is looked up twice and no entry point is called
\* twice, a call that failed is the last call of its run, and nothing but
\* the lookup and the ten entry points is ever called.
C6_NoRetryNoRecovery ==
  /\ pc = "threw" =>
       /\ log # << >>
       /\ log[Len(log)].out = "throw"
       /\ result = [kind |-> "exception", err |-> log[Len(log)].val]
  /\ \A k \in 1..Len(log) :
       /\ log[k].op \in {"lookup", "register"}
       /\ log[k].callee \in KnownCallees
       /\ (log[k].out # "ret" /\ k < Len(log)) => log[k + 1].run > log[k].run
  /\ \A r \in 1..run :
       LET evs == RunEvents(r)
       IN  Cardinality({CallOf(evs[k]) : k \in 1..Len(evs)}) = Len(evs)

C6_Witness ==
  /\ pc = "threw"
  /\ result = [kind |-> "exception", err |-> "plugin_error"]
  /\ Len(log) > 2
  /\ log[Len(log)].op = "register"

(***************************************************************************)
(* C7                                                                      *)
(***************************************************************************)
\* C7: the identifier handed to GetRegistrarForPlugin for an entry point is
\* the entry point's name without the suffix RegisterWithRegistrar.
C7_CanonicalIdentifier ==
  \A k \in 1..Len(log) :
    log[k].op = "register" =>
      /\ k > 1
      /\ log[k - 1].op = "lookup"
      /\ log[k - 1].run = log[k].run
      /\ log[k - 1].arg \o Suffix = log[k].callee

C7_Witness ==
  /\ pc = "returned"
  /\ \E k \in 2..Len(log) :
        /\ log[k].callee = "IsarFlutterLibsPluginRegisterWithRegistrar"
        /\ log[k - 1].arg = "IsarFlutterLibsPlugin"

(***************************************************************************)
(* C8                                                                      *)
(***************************************************************************)
\* C8: in a run lookups and registrations alternate, plugin after plugin:
\* call 2i-1 is the lookup of plugin i and call 2i its entry point, every
\* call but the last has returned, and at most one registrar has been
\* obtained and not yet forwarded.
C8_Alternation ==
  /\ \A r \in 1..run :
       LET evs == RunEvents(r)
       IN  /\ \A k \in 1..Len(evs) :
                /\ evs[k].op = (IF k % 2 = 1 THEN "lookup" ELSE "register")
                /\ IndexOf(PluginOf(evs[k])) = (k + 1) \div 2
                /\ k < Len(evs) => evs[k].out = "ret"
           /\ Len(SelectSeq(evs, LAMBDA e : e.op = "lookup" /\ e.out = "ret"))
                - Len(Registrations(evs)) \in {0, 1}
  /\ (tmp # NoRegistrar) <=>
       (pc = "running" /\ log # << >> /\ log[Len(log)].run = run
          /\ log[Len(log)].op = "lookup" /\ log[Len(log)].out = "ret")

C8_Witness ==
  /\ pc = "running"
  /\ tmp # NoRegistrar
  /\ Len(RunEvents(run)) = 5

(***************************************************************************)
(* C9                                                                      *)
(***************************************************************************)
FirstFailure(evs) ==
  CHOOSE f \in 1..Len(evs) :
    evs[f].out # "ret" /\ \A k \in 1..(f - 1) : evs[k].out = "ret"

\* C9: when the first failure of a run is at plugin k, the entry points
\* that completed in that run are exactly those of plugins 1..k-1 and no
\* call of the run is about a plugin after k.
C9_RegisteredPrefix ==
  \A r \in 1..run :
    LET evs == RunEvents(r)
    IN  ~AllReturned(evs) =>
          LET k == IndexOf(PluginOf(evs[FirstFailure(evs)]))
          IN  /\ k >= 1
              /\ {e.callee : e \in {evs[j] : j \in {i \in 1..Len(evs) :
                      evs[i].op = "register" /\ evs[i].out = "ret"}}}
                   = {EntryPointOf(DeclaredOrder[j]) : j \in 1..(k - 1)}
              /\ \A j \in 1..Len(evs) : IndexOf(PluginOf(evs[j])) \in 1..k

C9_Witness ==
  /\ run = 2
  /\ pc = "running"
  /\ LET evs == RunEvents(1)
     IN  /\ Len(evs) = 8
         /\ evs[8].out = "throw"

(***************************************************************************)
(* C10                                                                     *)
(***************************************************************************)
NoCallFails == pc \notin {"threw", "hung"}

FullRunReturned ==
  /\ pc = "returned"
  /\ Len(Lookups(RunEvents(run))) = NumPlugins
  /\ Len(Registrations(RunEvents(run))) = NumPlugins
  /\ Len(RunEvents(run)) = NumPlugins + NumPlugins

\* C10: if every external call returns, a run of RegisterPlugins that has
\* started eventually returns, having made exactly 10 lookups and 10
\* registrations and no other call.
C10_Terminates ==
  ([]NoCallFails) => [](pc = "running" => <>FullRunReturned)

C10_Witness ==
  /\ FullRunReturned
  /\ AllReturned(log)
  /\ run = 1

=============================================================================
